---- MODULE Spec2Model ----
(***************************************************************************)
(* Model of the perspective-task renderers of omnifocus-mcp-enhanced:      *)
(*   src/src/tools/primitives/getCustomPerspectiveTasks.ts                 *)
(*   src/src/utils/dateFormatter.ts                                        *)
(*   src/src/utils/taskLinkFormatter.ts                                    *)
(*                                                                         *)
(* Strings the code builds are kept as structured values: a tree line is   *)
(* the sequence of its three-character prefix segments plus the task it    *)
(* names, a note is the sequence of its characters, a returned text is a   *)
(* record of its header, body and footer.  JavaScript's null and undefined *)
(* are the strings Null and Undefined.                                     *)
(***************************************************************************)
EXTENDS Integers, Sequences, FiniteSets, TLC

VARIABLES
  pc,     \* position of the call under study: "start", "awaiting", "done"
  args,   \* the arguments the call was made with
  ret,    \* what the call produced: a returned value or a thrown error
  calls,  \* collaborators and renderers invoked so far, in order
  scriptResult  \* what executeOmniFocusScript settled with, "pending" before

vars == <<pc, args, ret, calls, scriptResult>>

(***************************************************************************)
(* Bounds of the model.                                                    *)
(***************************************************************************)
\* total number of child references in a generated TaskMap
MaxRefs == 2
\* number of completed records in a generated TaskMap
MaxCompleted == 1
\* depth at which the engine's call stack is exhausted (RangeError)
StackLimit == 5

(***************************************************************************)
(* JavaScript values.                                                      *)
(***************************************************************************)
Null == "<null>"
Undefined == "<undefined>"

\* truthiness of a string-or-undefined field such as task.project or task.id
Truthy(s) == s # Undefined /\ s # Null /\ s # ""

Return(v) == [threw |-> FALSE, value |-> v]
Throw(e) == [threw |-> TRUE, error |-> e]

(***************************************************************************)
(* TaskMap: a function from keys to records.  Object.values lists the      *)
(* records in insertion order, which is KeyOrder here.                     *)
(***************************************************************************)
TaskIds == {"A", "B", "C"}
KeyOrder == <<"A", "B", "C">>
\* an id that is never a key of a generated map
DanglingId == "Z"

ObjectValues(taskMap) ==
  LET keys == SelectSeq(KeyOrder, LAMBDA k : k \in DOMAIN taskMap)
  IN  [i \in 1..Len(keys) |-> taskMap[keys[i]]]

\* a null where a record is expected: every field access on it throws
NullTask ==
  [id |-> Null, name |-> Null, completed |-> FALSE, flagged |-> FALSE,
   project |-> Null, tags |-> <<>>, dueDate |-> Null, estimatedMinutes |-> 0,
   note |-> <<>>, parent |-> Null, children |-> <<>>]
IsNull(task) == task.id = Null
AnyNull(tasks) == \E i \in 1..Len(tasks) : IsNull(tasks[i])

\* taskMap[childId]: the record, or undefined for a key the map lacks
HasKey(taskMap, childId) ==
  childId \in DOMAIN taskMap /\ ~IsNull(taskMap[childId])

(***************************************************************************)
(* taskLinkFormatter.ts                                                    *)
(***************************************************************************)
formatTaskLink(taskId) ==
  IF ~Truthy(taskId) THEN [link |-> FALSE, task |-> ""]
  ELSE [link |-> TRUE, task |-> taskId]

(***************************************************************************)
(* Notes are sequences of characters.                                      *)
(***************************************************************************)
IsSpace(c) == c = " "

RECURSIVE TrimStart(_)
TrimStart(s) ==
  IF s # <<>> /\ IsSpace(Head(s)) THEN TrimStart(Tail(s)) ELSE s

RECURSIVE TrimEnd(_)
TrimEnd(s) ==
  IF s # <<>> /\ IsSpace(s[Len(s)]) THEN TrimEnd(SubSeq(s, 1, Len(s) - 1)) ELSE s

\* String.prototype.trim
Trim(s) == TrimEnd(TrimStart(s))

\* String.prototype.substring(0, n)
Substring0(s, n) == SubSeq(s, 1, IF Len(s) < n THEN Len(s) ELSE n)

\* budget of the note preview in formatTaskDetails
NoteBudgetDetails == 60
\* budget of the note preview in formatFlatTasks
NoteBudgetFlat == 100

(***************************************************************************)
(* Field formatters.                                                       *)
(***************************************************************************)
\* the "Hh Mm" estimate of formatTaskDetails and formatFlatTasks
formatEstimate(estimatedMinutes) ==
  LET hours == estimatedMinutes \div 60
      minutes == estimatedMinutes % 60
  IN  IF hours > 0
      THEN [h |-> hours, m |-> IF minutes > 0 THEN minutes ELSE 0, showH |-> TRUE,
            showM |-> minutes > 0]
      ELSE [h |-> 0, m |-> minutes, showH |-> FALSE, showM |-> TRUE]

formatTaskName(task) ==
  IF task.completed THEN [name |-> task.name, style |-> "done"]
  ELSE IF task.flagged THEN [name |-> task.name, style |-> "important"]
  ELSE [name |-> task.name, style |-> "plain"]

formatTaskDetails(task) ==
  LET project == IF Truthy(task.project)
                 THEN <<[label |-> "project", text |-> <<task.project>>, ellipsis |-> FALSE]>>
                 ELSE <<>>
      tags == IF Len(task.tags) > 0
              THEN <<[label |-> "tags", text |-> task.tags, ellipsis |-> FALSE]>>
              ELSE <<>>
      due == IF Truthy(task.dueDate)
             THEN <<[label |-> "due", text |-> <<task.dueDate>>, ellipsis |-> FALSE]>>
             ELSE <<>>
      est == IF task.estimatedMinutes # 0
             THEN <<[label |-> "estimate",
                     text |-> <<formatEstimate(task.estimatedMinutes)>>,
                     ellipsis |-> FALSE]>>
             ELSE <<>>
      note == IF Len(task.note) > 0 /\ Len(Trim(task.note)) > 0
              THEN LET notePreview == Substring0(Trim(task.note), NoteBudgetDetails)
                   IN  <<[label |-> "note", text |-> notePreview,
                          ellipsis |-> Len(task.note) > NoteBudgetDetails]>>
              ELSE <<>>
  IN  project \o tags \o due \o est \o note

(***************************************************************************)
(* Tree renderer.                                                          *)
(***************************************************************************)
LastConnector == "+- "
MidConnector == "|- "
BlankSegment == "   "
BarSegment == "|  "

\* a bug that filters the children by presence only
ChildShownIgnoringCompleted(taskMap, hideCompleted, childId) ==
  HasKey(taskMap, childId)

\* line 123: the children kept after the lookup through the map
ChildShown(taskMap, hideCompleted, childId) ==
  HasKey(taskMap, childId) /\ (~hideCompleted \/ ~taskMap[childId].completed)

\* a bug that always continues the guide line of the parent
childPrefixAlwaysBar(prefix, isLast) == Append(prefix, BarSegment)

\* line 127: the prefix handed to the children of a node
childPrefixOf(prefix, isLast) ==
  Append(prefix, IF isLast THEN BlankSegment ELSE BarSegment)

RECURSIVE renderTaskTree(_, _, _, _, _, _, _)
RECURSIVE forEachChildTask(_, _, _, _, _, _, _)

\* One activation of renderTaskTree; depth is the number of activations on
\* the call stack.  Returns [threw, lines]: the lines array after the call,
\* or threw when the recursion exhausted the stack.
renderTaskTree(task, taskMap, hideCompleted, prefix, isLast, lines, depth) ==
  IF depth > StackLimit THEN [threw |-> TRUE, lines |-> lines]
  ELSE
    LET currentPrefix == Append(prefix, IF isLast THEN LastConnector ELSE MidConnector)
        taskLine == [kind |-> "task", prefix |-> currentPrefix, id |-> task.id,
                     name |-> formatTaskName(task), link |-> formatTaskLink(task.id)]
        detailPrefix == Append(prefix, IF isLast THEN BlankSegment ELSE BarSegment)
        taskDetails == formatTaskDetails(task)
        detailLines == [i \in 1..Len(taskDetails) |->
                          [kind |-> "detail", prefix |-> detailPrefix, id |-> task.id,
                           detail |-> taskDetails[i]]]
        lines1 == Append(lines, taskLine) \o detailLines
    IN  IF Len(task.children) > 0
        THEN LET childTasks == SelectSeq(task.children,
                                 LAMBDA childId : ChildShown(taskMap, hideCompleted, childId))
             IN  forEachChildTask(childTasks, 1, taskMap, hideCompleted,
                                  childPrefixOf(prefix, isLast), lines1, depth)
        ELSE [threw |-> FALSE, lines |-> lines1]

\* lines 125-129: childTasks.forEach, from position index on
forEachChildTask(childTasks, index, taskMap, hideCompleted, childPrefix, lines, depth) ==
  IF index > Len(childTasks) THEN [threw |-> FALSE, lines |-> lines]
  ELSE
    LET isLastChild == index = Len(childTasks)
        r == renderTaskTree(taskMap[childTasks[index]], taskMap, hideCompleted,
                            childPrefix, isLastChild, lines, depth + 1)
    IN  IF r.threw THEN r
        ELSE forEachChildTask(childTasks, index + 1, taskMap, hideCompleted,
                              childPrefix, r.lines, depth)

IsRoot(task) == task.parent = Null

\* lines 79-84: the roots rendered at the top level
filteredRootTasks(taskMap, hideCompleted) ==
  LET rootTasks == SelectSeq(ObjectValues(taskMap), IsRoot)
  IN  IF hideCompleted
      THEN SelectSeq(rootTasks, LAMBDA task : ~task.completed)
      ELSE rootTasks

RECURSIVE forEachRootTask(_, _, _, _, _)
\* lines 93-96: filteredRootTasks.forEach, from position index on
forEachRootTask(roots, index, taskMap, hideCompleted, lines) ==
  IF index > Len(roots) THEN [threw |-> FALSE, lines |-> lines]
  ELSE
    LET isLast == index = Len(roots)
        r == renderTaskTree(roots[index], taskMap, hideCompleted, <<>>, isLast, lines, 1)
    IN  IF r.threw THEN r
        ELSE forEachRootTask(roots, index + 1, taskMap, hideCompleted, r.lines)

formatHierarchicalTasks(perspectiveName, taskMap, hideCompleted) ==
  LET roots == filteredRootTasks(taskMap, hideCompleted)
  IN  IF AnyNull(ObjectValues(taskMap)) THEN Throw("TypeError")
      ELSE IF Len(roots) = 0
      THEN Return([kind |-> "hierarchical", perspectiveName |-> perspectiveName,
                   noRootTasks |-> TRUE, lines |-> <<>>])
      ELSE LET r == forEachRootTask(roots, 1, taskMap, hideCompleted, <<>>)
           IN  IF r.threw THEN Throw("RangeError")
               ELSE Return([kind |-> "hierarchical", perspectiveName |-> perspectiveName,
                            noRootTasks |-> FALSE, lines |-> r.lines])

(***************************************************************************)
(* SpecTree: formatHierarchicalTasks on every generated TaskMap.           *)
(***************************************************************************)
ChildIds == TaskIds \cup {DanglingId}

\* the records of the tree family: only A carries a project
TreeRecord(id, parent, completed, children) ==
  [id |-> id, name |-> id, completed |-> completed, flagged |-> FALSE,
   project |-> IF id = "A" THEN "Alpha" ELSE Undefined,
   tags |-> <<>>, dueDate |-> Undefined, estimatedMinutes |-> 0, note |-> <<>>,
   parent |-> parent, children |-> children]

ParentValues == {Null, Undefined, "A"}

InitTree ==
  /\ pc = "start"
  /\ ret = Return("none")
  /\ calls = <<>>
  /\ scriptResult = "pending"
  /\ \E la \in 0..MaxRefs :
     \E lb \in 0..(MaxRefs - la) :
     \E lc \in 0..(MaxRefs - la - lb) :
     \E ca \in [1..la -> ChildIds], cb \in [1..lb -> ChildIds], cc \in [1..lc -> ChildIds] :
     \E parent \in [TaskIds -> ParentValues] :
     \E done \in {S \in SUBSET TaskIds : Cardinality(S) <= MaxCompleted} :
     \E hideCompleted \in BOOLEAN :
       args = [perspectiveName |-> "P",
               taskMap |-> [id \in TaskIds |->
                              TreeRecord(id, parent[id], id \in done,
                                         CASE id = "A" -> ca [] id = "B" -> cb [] OTHER -> cc)],
               hideCompleted |-> hideCompleted]

CallFormatHierarchicalTasks ==
  /\ pc = "start"
  /\ ret' = formatHierarchicalTasks(args.perspectiveName, args.taskMap, args.hideCompleted)
  /\ calls' = Append(calls, "formatHierarchicalTasks")
  /\ pc' = "done"
  /\ UNCHANGED <<args, scriptResult>>

NextTree == CallFormatHierarchicalTasks

SpecTree == InitTree /\ [][NextTree]_vars

(***************************************************************************)
(* Flat and grouped renderers.                                             *)
(***************************************************************************)
\* an optional number such as data.count
NoNumber == [defined |-> FALSE, n |-> 0]
Number(n) == [defined |-> TRUE, n |-> n]
\* a > n in JavaScript: false when a is undefined
GreaterThan(a, n) == a.defined /\ a.n > n

\* Array.prototype.slice(0, n) for an integer n >= 0
Slice0(seq, n) == SubSeq(seq, 1, IF Len(seq) < n THEN Len(seq) ELSE n)

\* a bug that keeps one task more than the limit
flatDisplayTasksOffByOne(tasks, limit) ==
  IF limit # 0 /\ limit > 0 THEN Slice0(tasks, limit + 1) ELSE tasks

\* lines 182-185
flatDisplayTasks(tasks, limit) ==
  IF limit # 0 /\ limit > 0 THEN Slice0(tasks, limit) ELSE tasks

\* lines 188-225: the numbered block of one task
flatTaskText(task, index) ==
  [index |-> index + 1, name |-> task.name,
   project |-> IF Truthy(task.project) THEN <<task.project>> ELSE <<>>,
   tags |-> IF Len(task.tags) > 0 THEN <<task.tags>> ELSE <<>>,
   due |-> IF Truthy(task.dueDate) THEN <<task.dueDate>> ELSE <<>>,
   important |-> task.flagged,
   estimate |-> IF task.estimatedMinutes # 0
                THEN <<formatEstimate(task.estimatedMinutes)>> ELSE <<>>,
   note |-> IF Len(task.note) > 0 /\ Len(Trim(task.note)) > 0
            THEN LET notePreview == Substring0(Trim(task.note), NoteBudgetFlat)
                 IN  <<[text |-> notePreview, ellipsis |-> Len(task.note) > NoteBudgetFlat]>>
            ELSE <<>>,
   link |-> formatTaskLink(task.id)]

formatFlatTasks(perspectiveName, tasks, limit, totalCount) ==
  LET displayTasks == flatDisplayTasks(tasks, limit)
  IN  IF AnyNull(displayTasks) THEN Throw("TypeError")
      ELSE Return(
        [kind |-> "flat", perspectiveName |-> perspectiveName,
         header |-> [displayed |-> Len(displayTasks)],
         taskList |-> [i \in 1..Len(displayTasks) |-> flatTaskText(displayTasks[i], i - 1)],
         footer |-> IF GreaterThan(totalCount, Len(displayTasks))
                    THEN <<[totalCount |-> totalCount.n, displayed |-> Len(displayTasks)]>>
                    ELSE <<>>])

\* lines 236-239
groupedDisplayTasks(tasks, limit) ==
  IF limit # 0 /\ limit > 0 THEN Slice0(tasks, limit) ELSE tasks

formatTaskForGroup(task) ==
  [kind |-> "task", id |-> task.id, name |-> task.name,
   statusIcon |-> IF task.completed THEN "done"
                  ELSE IF task.flagged THEN "important" ELSE "plain",
   tags |-> task.tags,
   due |-> IF Truthy(task.dueDate) THEN <<task.dueDate>> ELSE <<>>,
   estimate |-> IF task.estimatedMinutes # 0
                THEN <<formatEstimate(task.estimatedMinutes)>> ELSE <<>>,
   link |-> formatTaskLink(task.id)]

\* Map.prototype.has on the insertion-ordered projectGroups
HasGroup(projectGroups, projectName) ==
  \E g \in 1..Len(projectGroups) : projectGroups[g].projectName = projectName

\* a bug that opens a new group for every task
addToGroupAlwaysNew(projectGroups, projectName, task) ==
  Append(projectGroups, [projectName |-> projectName, projectTasks |-> <<task>>])

\* lines 247-251: set the group if the map lacks it, then push the task
addToGroup(projectGroups, projectName, task) ==
  LET withGroup == IF ~HasGroup(projectGroups, projectName)
                   THEN Append(projectGroups,
                               [projectName |-> projectName, projectTasks |-> <<>>])
                   ELSE projectGroups
  IN  [g \in 1..Len(withGroup) |->
         IF withGroup[g].projectName = projectName
         THEN [withGroup[g] EXCEPT !.projectTasks = Append(@, task)]
         ELSE withGroup[g]]

RECURSIVE groupByProjectFrom(_, _, _, _)
\* lines 245-255: displayTasks.forEach, from position index on
groupByProjectFrom(displayTasks, index, projectGroups, noProjectTasks) ==
  IF index > Len(displayTasks)
  THEN [projectGroups |-> projectGroups, noProjectTasks |-> noProjectTasks]
  ELSE LET task == displayTasks[index]
       IN  IF Truthy(task.project)
           THEN groupByProjectFrom(displayTasks, index + 1,
                                   addToGroup(projectGroups, task.project, task),
                                   noProjectTasks)
           ELSE groupByProjectFrom(displayTasks, index + 1, projectGroups,
                                   Append(noProjectTasks, task))

RECURSIVE projectSections(_, _)
\* lines 261-267: projectGroups.forEach, from position g on
projectSections(projectGroups, g) ==
  IF g > Len(projectGroups) THEN <<>>
  ELSE LET projectTasks == projectGroups[g].projectTasks
       IN  <<[kind |-> "project", projectName |-> projectGroups[g].projectName],
             [kind |-> "blank"]>>
           \o [i \in 1..Len(projectTasks) |-> formatTaskForGroup(projectTasks[i])]
           \o projectSections(projectGroups, g + 1)

formatGroupedByProject(perspectiveName, tasks, limit, totalCount) ==
  LET displayTasks == groupedDisplayTasks(tasks, limit)
      groups == groupByProjectFrom(displayTasks, 1, <<>>, <<>>)
      noProjectTasks == groups.noProjectTasks
      inbox == IF Len(noProjectTasks) > 0
               THEN <<[kind |-> "inbox"], [kind |-> "blank"]>>
                    \o [i \in 1..Len(noProjectTasks) |-> formatTaskForGroup(noProjectTasks[i])]
               ELSE <<>>
  IN  IF AnyNull(displayTasks) THEN Throw("TypeError")
      ELSE Return(
        [kind |-> "grouped", perspectiveName |-> perspectiveName,
         header |-> [displayed |-> Len(displayTasks),
                     projects |-> Len(groups.projectGroups)],
         lines |-> projectSections(groups.projectGroups, 1) \o inbox,
         footer |-> IF GreaterThan(totalCount, Len(displayTasks))
                    THEN <<[totalCount |-> totalCount.n, displayed |-> Len(displayTasks)]>>
                    ELSE <<>>])

(***************************************************************************)
(* SpecList: formatFlatTasks and formatGroupedByProject on every generated *)
(* non-empty task sequence, limit and total count.                         *)
(***************************************************************************)
\* length of a generated task sequence
MaxTasks == 3

ListProjects == {Undefined, "", "Alpha", "Beta"}

ListTask(i, project) ==
  [id |-> ToString(i), name |-> ToString(i), completed |-> FALSE, flagged |-> FALSE,
   project |-> project, tags |-> <<>>, dueDate |-> Undefined, estimatedMinutes |-> 0,
   note |-> <<>>, parent |-> Null, children |-> <<>>]

InitList ==
  /\ pc = "start"
  /\ ret = Return("none")
  /\ calls = <<>>
  /\ scriptResult = "pending"
  /\ \E n \in 1..MaxTasks :
     \E projects \in [1..n -> ListProjects] :
     \E limit \in (0 - 1)..(MaxTasks + 1) :
     \E totalCount \in {NoNumber} \cup {Number(c) : c \in 0..(MaxTasks + 1)} :
       args = [perspectiveName |-> "P",
               tasks |-> [i \in 1..n |-> ListTask(i, projects[i])],
               limit |-> limit, totalCount |-> totalCount]

CallFormatFlatTasks ==
  /\ pc = "start"
  /\ ret' = formatFlatTasks(args.perspectiveName, args.tasks, args.limit, args.totalCount)
  /\ calls' = Append(calls, "formatFlatTasks")
  /\ pc' = "done"
  /\ UNCHANGED <<args, scriptResult>>

CallFormatGroupedByProject ==
  /\ pc = "start"
  /\ ret' = formatGroupedByProject(args.perspectiveName, args.tasks, args.limit,
                                   args.totalCount)
  /\ calls' = Append(calls, "formatGroupedByProject")
  /\ pc' = "done"
  /\ UNCHANGED <<args, scriptResult>>

NextList == CallFormatFlatTasks \/ CallFormatGroupedByProject

SpecList == InitList /\ [][NextList]_vars

(***************************************************************************)
(* SpecNote: the note preview of formatTaskDetails and of formatFlatTasks  *)
(* on notes around both budgets, with and without surrounding whitespace.  *)
(***************************************************************************)
\* number of whitespace characters before and after the body of a note
MaxPad == 2
\* line 13: the default of the limit option
DefaultLimit == 1000

Digits == <<"0", "1", "2", "3", "4", "5", "6", "7", "8", "9">>
\* a note: lead spaces, body characters that are not whitespace, trail spaces
MakeNote(lead, body, trail) ==
  [i \in 1..lead |-> " "] \o [i \in 1..body |-> Digits[(i % 10) + 1]]
    \o [i \in 1..trail |-> " "]

BodyLengths ==
  {0, 1} \cup ((NoteBudgetDetails - 2)..(NoteBudgetDetails + 2))
         \cup ((NoteBudgetFlat - 2)..(NoteBudgetFlat + 2))

NoteTask(note) ==
  [id |-> "N", name |-> "N", completed |-> FALSE, flagged |-> FALSE,
   project |-> Undefined, tags |-> <<>>, dueDate |-> Undefined, estimatedMinutes |-> 0,
   note |-> note, parent |-> Null, children |-> <<>>]

InitNote ==
  /\ pc = "start"
  /\ ret = Return("none")
  /\ calls = <<>>
  /\ scriptResult = "pending"
  /\ \E lead \in 0..MaxPad, trail \in 0..MaxPad, body \in BodyLengths :
       args = [perspectiveName |-> "P",
               tasks |-> <<NoteTask(MakeNote(lead, body, trail))>>,
               limit |-> DefaultLimit, totalCount |-> Number(1)]

CallFormatTaskDetails ==
  /\ pc = "start"
  /\ ret' = Return(formatTaskDetails(args.tasks[1]))
  /\ calls' = Append(calls, "formatTaskDetails")
  /\ pc' = "done"
  /\ UNCHANGED <<args, scriptResult>>

NextNote == CallFormatTaskDetails \/ CallFormatFlatTasks

SpecNote == InitNote /\ [][NextNote]_vars

(***************************************************************************)
(* Orchestrator: getCustomPerspectiveTasks.                                *)
(***************************************************************************)
\* an optional boolean option or field
NoFlag == [defined |-> FALSE, b |-> FALSE]
Flag(b) == [defined |-> TRUE, b |-> b]
\* a destructuring default (line 13): taken only for undefined
FlagOr(flag, default) == IF flag.defined THEN flag.b ELSE default
NumberOr(number, default) == IF number.defined THEN number.n ELSE default

\* the taskMap field of the decoded result
NoTaskMap == [kind |-> "absent", map |-> <<>>]
TaskMapOf(map) == [kind |-> "map", map |-> map]
\* a taskMap that is a number: Object.values of it is empty
NumberAsTaskMap == [kind |-> "number", map |-> <<>>]

\* values executeOmniFocusScript can resolve with, by their typeof
Object(success, error, taskMap, count) ==
  [type |-> "object", isNull |-> FALSE, success |-> success, error |-> error,
   taskMap |-> taskMap, count |-> count]
NullValue ==
  [type |-> "object", isNull |-> TRUE, success |-> NoFlag, error |-> Undefined,
   taskMap |-> NoTaskMap, count |-> NoNumber]
Primitive(type) ==
  [type |-> type, isNull |-> FALSE, success |-> NoFlag, error |-> Undefined,
   taskMap |-> NoTaskMap, count |-> NoNumber]
\* a string: JSON.parse of it throws, or yields the value it encodes
NotJson == [type |-> "string", parses |-> FALSE, parsed |-> NullValue]
JsonOf(value) == [type |-> "string", parses |-> TRUE, parsed |-> value]

Resolved(value) == [settled |-> "resolved", value |-> value, error |-> ""]
Rejected(error) == [settled |-> "rejected", value |-> NullValue, error |-> error]

RendererNames == {"formatHierarchicalTasks", "formatGroupedByProject", "formatFlatTasks"}

\* a bug that lets the grouping flag win over the hierarchy flag
chooseRendererGroupedFirst(showHierarchy, groupByProject) ==
  IF groupByProject THEN "formatGroupedByProject"
  ELSE IF showHierarchy THEN "formatHierarchicalTasks"
  ELSE "formatFlatTasks"

\* lines 60-66: the renderer the flags select
chooseRenderer(showHierarchy, groupByProject) ==
  IF showHierarchy THEN "formatHierarchicalTasks"
  ELSE IF groupByProject THEN "formatGroupedByProject"
  ELSE "formatFlatTasks"

\* lines 28-38: the decoded data, or the error thrown
decodeResult(result) ==
  IF result.type = "string"
  THEN IF result.parses THEN Return(result.parsed) ELSE Throw("ParseError")
  ELSE IF result.type = "object" /\ ~result.isNull THEN Return(result)
  ELSE Throw("InvalidResultType")

\* lines 41-66: from the success check to the renderer's return, inside the
\* try block.  [result, calls]: what the block returns or throws, and the
\* renderers it invoked.
renderData(data, perspectiveName, hideCompleted, limit, showHierarchy, groupByProject) ==
  IF data.type # "object" \/ data.isNull
  THEN \* property access on null throws; on a primitive it yields undefined
       IF data.isNull THEN [result |-> Throw("TypeError"), calls |-> <<>>]
       ELSE [result |-> Throw("Unknown error occurred"), calls |-> <<>>]
  ELSE IF ~FlagOr(data.success, FALSE)
  THEN [result |-> Throw(IF Truthy(data.error) THEN data.error
                         ELSE "Unknown error occurred"),
        calls |-> <<>>]
  ELSE
    LET taskMap == IF data.taskMap.kind = "map" THEN data.taskMap.map ELSE <<>>
        allTasks == ObjectValues(taskMap)
        filteredTasks == IF hideCompleted
                         THEN SelectSeq(allTasks, LAMBDA task : ~task.completed)
                         ELSE allTasks
        renderer == chooseRenderer(showHierarchy, groupByProject)
    IN  IF hideCompleted /\ AnyNull(allTasks)
        THEN [result |-> Throw("TypeError"), calls |-> <<>>]
        ELSE IF Len(filteredTasks) = 0
        THEN [result |-> Return([kind |-> "empty", perspectiveName |-> perspectiveName,
                                 hideCompleted |-> hideCompleted]),
              calls |-> <<>>]
        ELSE [result |->
                CASE renderer = "formatHierarchicalTasks" ->
                       formatHierarchicalTasks(perspectiveName, taskMap, hideCompleted)
                  [] renderer = "formatGroupedByProject" ->
                       formatGroupedByProject(perspectiveName, filteredTasks, limit, data.count)
                  [] OTHER ->
                       formatFlatTasks(perspectiveName, filteredTasks, limit, data.count),
              calls |-> <<renderer>>]

ErrorText(message) == [kind |-> "error", message |-> message]

\* a bug that lets the error go on to the caller
catchErrorRethrow(attempt) == [ret |-> attempt.result, calls |-> attempt.calls]

\* lines 68-71: a throw inside the try block becomes the returned error text
catchError(attempt) ==
  IF attempt.result.threw
  THEN [ret |-> Return(ErrorText(attempt.result.error)),
        calls |-> Append(attempt.calls, "console.error")]
  ELSE [ret |-> attempt.result, calls |-> attempt.calls]

\* lines 19-71: the try statement, once executeOmniFocusScript has settled
afterAwait(options, settled) ==
  LET hideCompleted == FlagOr(options.hideCompleted, TRUE)
      limit == NumberOr(options.limit, DefaultLimit)
      showHierarchy == FlagOr(options.showHierarchy, FALSE)
      groupByProject == FlagOr(options.groupByProject, TRUE)
      decoded == IF settled.settled = "rejected" THEN Throw(settled.error)
                 ELSE decodeResult(settled.value)
  IN  catchError(
        IF decoded.threw THEN [result |-> decoded, calls |-> <<>>]
        ELSE renderData(decoded.value, options.perspectiveName, hideCompleted, limit,
                        showHierarchy, groupByProject))

(***************************************************************************)
(* SpecOrch: getCustomPerspectiveTasks on every combination of options and *)
(* every outcome of the external query.                                    *)
(***************************************************************************)
OrchRecord(id, name, parent, completed, project, children) ==
  [id |-> id, name |-> name, completed |-> completed, flagged |-> FALSE,
   project |-> project, tags |-> <<>>, dueDate |-> Undefined, estimatedMinutes |-> 0,
   note |-> <<>>, parent |-> parent, children |-> children]

EmptyMap == [id \in {} |-> NullTask]
\* a root with one child, both active
ActiveMap ==
  [id \in {"A", "B"} |->
     IF id = "A" THEN OrchRecord("A", "a", Null, FALSE, "Alpha", <<"B">>)
     ELSE OrchRecord("B", "b", "A", FALSE, Undefined, <<>>)]
\* every record completed
CompletedMap == [id \in {"A"} |-> OrchRecord("A", "a", Null, TRUE, Undefined, <<>>)]
\* a completed root between two active ones
MixedMap ==
  [id \in {"A", "B", "C"} |->
     CASE id = "A" -> OrchRecord("A", "a", Null, FALSE, "Alpha", <<>>)
       [] id = "B" -> OrchRecord("B", "b", Null, TRUE, "Beta", <<>>)
       [] OTHER -> OrchRecord("C", "c", Null, FALSE, Undefined, <<>>)]
\* a task that is its own child
CyclicMap == [id \in {"A"} |-> OrchRecord("A", "a", Null, FALSE, Undefined, <<"A">>)]
\* malformed: the only record is null
NullRecordMap == [id \in {"A"} |-> NullTask]
\* malformed: a null after a well-formed record
NullSecondMap ==
  [id \in {"A", "B"} |->
     IF id = "A" THEN OrchRecord("A", "a", Null, FALSE, Undefined, <<>>) ELSE NullTask]
\* malformed: a record without name, parent or project, naming a child the map lacks
IncompleteMap ==
  [id \in {"A"} |-> OrchRecord("A", Undefined, Undefined, FALSE, Undefined, <<DanglingId>>)]

OrchTaskMaps ==
  {NoTaskMap, NumberAsTaskMap} \cup
  {TaskMapOf(m) : m \in {EmptyMap, ActiveMap, CompletedMap, MixedMap, CyclicMap,
                          NullRecordMap, NullSecondMap, IncompleteMap}}

SuccessData ==
  {Object(Flag(TRUE), Undefined, taskMap, count) :
     taskMap \in OrchTaskMaps, count \in {NoNumber, Number(5)}}
FailureData ==
  {Object(Flag(FALSE), "boom", NoTaskMap, NoNumber),
   Object(Flag(FALSE), Undefined, NoTaskMap, NoNumber),
   Object(NoFlag, Undefined, TaskMapOf(ActiveMap), NoNumber)}

ScriptOutcomes ==
  {Rejected("script failed")}
  \cup {Resolved(v) : v \in {NotJson, JsonOf(NullValue), JsonOf(Primitive("number"))}}
  \cup {Resolved(JsonOf(d)) : d \in {Object(Flag(TRUE), Undefined, TaskMapOf(ActiveMap), Number(5)),
                                     Object(Flag(FALSE), "boom", NoTaskMap, NoNumber)}}
  \cup {Resolved(v) : v \in {NullValue, Primitive("number"), Primitive("undefined"),
                             Primitive("boolean")}}
  \cup {Resolved(d) : d \in SuccessData \cup FailureData}

OptionalFlags == {NoFlag, Flag(TRUE), Flag(FALSE)}

InitOrch ==
  /\ pc = "start"
  /\ ret = Return("none")
  /\ calls = <<>>
  /\ scriptResult = "pending"
  /\ args \in [perspectiveName : {"", Undefined, "Work"},
                hideCompleted : OptionalFlags,
                limit : {NoNumber, Number(1)},
                showHierarchy : OptionalFlags,
                groupByProject : OptionalFlags]

\* lines 12-23: from the call to the await of executeOmniFocusScript
Invoke ==
  /\ pc = "start"
  /\ IF ~Truthy(args.perspectiveName)
     THEN /\ ret' = Return(ErrorText("empty perspective name"))
          /\ pc' = "done"
          /\ calls' = calls
     ELSE /\ calls' = Append(calls, "executeOmniFocusScript")
          /\ pc' = "awaiting"
          /\ ret' = ret
  /\ UNCHANGED <<args, scriptResult>>

\* lines 21-71: executeOmniFocusScript settles and the function runs to its return
ScriptSettles ==
  /\ pc = "awaiting"
  /\ \E settled \in ScriptOutcomes :
       LET after == afterAwait(args, settled)
       IN  /\ scriptResult' = settled
           /\ ret' = after.ret
           /\ calls' = calls \o after.calls
  /\ pc' = "done"
  /\ UNCHANGED args

NextOrch == Invoke \/ ScriptSettles

SpecOrch == InitOrch /\ [][NextOrch]_vars

(***************************************************************************)
(* dateFormatter.ts: generateAppleScriptDateVar.  A date string is the     *)
(* sequence of its characters.                                             *)
(***************************************************************************)
IsDigit(c) == \E i \in 1..Len(Digits) : Digits[i] = c
DigitValue(c) == (CHOOSE i \in 1..Len(Digits) : Digits[i] = c) - 1

RECURSIVE ParseInt(_)
\* parseInt(str, 10) on a string of digits
ParseInt(chars) ==
  IF chars = <<>> THEN 0
  ELSE 10 * ParseInt(SubSeq(chars, 1, Len(chars) - 1)) + DigitValue(chars[Len(chars)])

\* line 16: isoDate.match(/^(\d{4})-(\d{2})-(\d{2})/)
MatchesIsoDate(isoDate) ==
  /\ Len(isoDate) >= 10
  /\ \A i \in {1, 2, 3, 4, 6, 7, 9, 10} : IsDigit(isoDate[i])
  /\ isoDate[5] = "-" /\ isoDate[8] = "-"

\* a bug that changes the month before the day is set to 1
dateLinesMonthFirst(varName, year, month, day) ==
  <<[stmt |-> "using terms from scripting additions", var |-> "", value |-> 0],
    [stmt |-> "set to current date", var |-> varName, value |-> 0],
    [stmt |-> "set year", var |-> varName, value |-> year],
    [stmt |-> "set month", var |-> varName, value |-> month],
    [stmt |-> "set day", var |-> varName, value |-> 1],
    [stmt |-> "set day", var |-> varName, value |-> day],
    [stmt |-> "set time", var |-> varName, value |-> 0],
    [stmt |-> "end using terms from", var |-> "", value |-> 0]>>

\* lines 37-46
dateLines(varName, year, month, day) ==
  <<[stmt |-> "using terms from scripting additions", var |-> "", value |-> 0],
    [stmt |-> "set to current date", var |-> varName, value |-> 0],
    [stmt |-> "set day", var |-> varName, value |-> 1],
    [stmt |-> "set year", var |-> varName, value |-> year],
    [stmt |-> "set month", var |-> varName, value |-> month],
    [stmt |-> "set day", var |-> varName, value |-> day],
    [stmt |-> "set time", var |-> varName, value |-> 0],
    [stmt |-> "end using terms from", var |-> "", value |-> 0]>>

\* lines.join(newline + indent): every line but the first follows the indent
JoinLines(lines, indent) ==
  [i \in 1..Len(lines) |-> [indent |-> IF i = 1 THEN "" ELSE indent, line |-> lines[i]]]

generateAppleScriptDateVar(isoDate, varName, indent) ==
  IF isoDate = <<>> \/ Trim(isoDate) = <<>>
  THEN Throw("Date string cannot be empty")
  ELSE IF ~MatchesIsoDate(isoDate) THEN Throw("Invalid date string")
  ELSE
    LET year == ParseInt(SubSeq(isoDate, 1, 4))
        month == ParseInt(SubSeq(isoDate, 6, 7))
        day == ParseInt(SubSeq(isoDate, 9, 10))
    IN  IF month < 1 \/ month > 12 THEN Throw("Invalid month")
        ELSE IF day < 1 \/ day > 31 THEN Throw("Invalid day")
        ELSE Return(JoinLines(dateLines(varName, year, month, day), indent))

(***************************************************************************)
(* SpecDate: generateAppleScriptDateVar on well-formed and malformed date  *)
(* strings.                                                                *)
(***************************************************************************)
\* the decimal digits of n, zero-padded to width characters
RECURSIVE Padded(_, _)
Padded(n, width) ==
  IF width = 0 THEN <<>>
  ELSE Append(Padded(n \div 10, width - 1), Digits[(n % 10) + 1])

DateYears == {1999, 2024, 2026}
DateMonths == 0..13
DateDays == {0, 1, 9, 15, 28, 29, 30, 31, 32}
\* what may follow the date: nothing, or a time
DateSuffixes == {<<>>, <<"T", "1", "4", ":", "3", "0", ":", "0", "0">>}

IsoDateOf(year, month, day, suffix) ==
  Padded(year, 4) \o <<"-">> \o Padded(month, 2) \o <<"-">> \o Padded(day, 2) \o suffix

\* strings the pattern rejects
MalformedDates ==
  {<<>>, <<" ">>, <<"n", "o", "t", "-", "a", "-", "d", "a", "t", "e">>,
   <<"2", "0", "2", "6", "-", "3", "-", "1", "5">>,
   <<"2", "0", "2", "6", "/", "0", "3", "/", "1", "5">>,
   <<" ", "2", "0", "2", "6", "-", "0", "3", "-", "1", "5">>}

InitDate ==
  /\ pc = "start"
  /\ ret = Return("none")
  /\ calls = <<>>
  /\ scriptResult = "pending"
  /\ \E varName \in {"v", "theDueDate"}, indent \in {"", "    "} :
       \/ \E year \in DateYears, month \in DateMonths, day \in DateDays,
             suffix \in DateSuffixes :
            args = [isoDate |-> IsoDateOf(year, month, day, suffix),
                    varName |-> varName, indent |-> indent,
                    written |-> [year |-> year, month |-> month, day |-> day]]
       \/ \E isoDate \in MalformedDates :
            args = [isoDate |-> isoDate, varName |-> varName, indent |-> indent,
                    written |-> [year |-> 0, month |-> 0, day |-> 0]]

CallGenerateAppleScriptDateVar ==
  /\ pc = "start"
  /\ ret' = generateAppleScriptDateVar(args.isoDate, args.varName, args.indent)
  /\ calls' = Append(calls, "generateAppleScriptDateVar")
  /\ pc' = "done"
  /\ UNCHANGED <<args, scriptResult>>

NextDate == CallGenerateAppleScriptDateVar

SpecDate == InitDate /\ [][NextDate]_vars

(***************************************************************************)
(* What the tree of a TaskMap is, stated on the map alone.  A path is the  *)
(* position of a root among the rendered roots followed by positions in    *)
(* the children lists below it.                                            *)
(***************************************************************************)
RECURSIVE NodeAt(_, _, _)
NodeAt(taskMap, roots, path) ==
  IF Len(path) = 1 THEN roots[path[1]].id
  ELSE taskMap[NodeAt(taskMap, roots, SubSeq(path, 1, Len(path) - 1))].children[path[Len(path)]]

\* a child reference leads to a line: the id is a key of the map and, when
\* completed tasks are dropped, the record is not completed
Shows(taskMap, dropCompleted, childId) ==
  /\ childId \in DOMAIN taskMap
  /\ ~(dropCompleted /\ taskMap[childId].completed)

RECURSIVE PathsOfLength(_, _, _, _)
PathsOfLength(taskMap, roots, dropCompleted, n) ==
  IF n = 1 THEN {<<r>> : r \in 1..Len(roots)}
  ELSE LET shorter == PathsOfLength(taskMap, roots, dropCompleted, n - 1)
       IN  UNION {{Append(p, i) :
                     i \in {j \in 1..Len(taskMap[NodeAt(taskMap, roots, p)].children) :
                              Shows(taskMap, dropCompleted,
                                    taskMap[NodeAt(taskMap, roots, p)].children[j])}} :
                  p \in shorter}

TreePaths(taskMap, roots, dropCompleted) ==
  UNION {PathsOfLength(taskMap, roots, dropCompleted, n) :
           n \in 1..Cardinality(DOMAIN taskMap)}

\* p comes before q in depth-first pre-order
RECURSIVE PreOrderBefore(_, _)
PreOrderBefore(p, q) ==
  IF p = <<>> THEN TRUE
  ELSE IF q = <<>> THEN FALSE
  ELSE IF Head(p) # Head(q) THEN Head(p) < Head(q)
  ELSE PreOrderBefore(Tail(p), Tail(q))

RECURSIVE InPreOrder(_)
InPreOrder(paths) ==
  IF paths = {} THEN <<>>
  ELSE LET first == CHOOSE p \in paths : \A q \in paths : PreOrderBefore(p, q)
       IN  <<first>> \o InPreOrder(paths \ {first})

ChildrenInMap(taskMap, id) ==
  {taskMap[id].children[i] : i \in 1..Len(taskMap[id].children)} \cap DOMAIN taskMap

RECURSIVE Descendants(_, _, _)
Descendants(taskMap, frontier, seen) ==
  LET next == UNION {ChildrenInMap(taskMap, id) : id \in frontier}
  IN  IF next \subseteq seen THEN seen
      ELSE Descendants(taskMap, next \ seen, seen \cup next)

\* no task is its own descendant
Acyclic(taskMap) ==
  \A id \in DOMAIN taskMap : id \notin Descendants(taskMap, {id}, {})

TaskLines(lines) == SelectSeq(lines, LAMBDA line : line.kind = "task")
LineIds(lines) == [i \in 1..Len(lines) |-> lines[i].id]

TreeDone == pc = "done" /\ calls = <<"formatHierarchicalTasks">>
TreeRoots == filteredRootTasks(args.taskMap, args.hideCompleted)

\* the ids of the tree in pre-order, completed children dropped or not
ExpectedIds(dropCompleted) ==
  LET order == InPreOrder(TreePaths(args.taskMap, TreeRoots, dropCompleted))
  IN  [i \in 1..Len(order) |-> NodeAt(args.taskMap, TreeRoots, order[i])]

InMap(childId) == Shows(args.taskMap, FALSE, childId)
InMapAndVisible(childId) == Shows(args.taskMap, args.hideCompleted, childId)

\* C1: the hierarchical rendering terminates on every TaskMap, cyclic ones
\* included: the recursion of renderTaskTree never runs until the call stack
\* is exhausted.
C1_RenderingTerminates ==
  TreeDone => ~ret.threw

\* C3 as stated: on an acyclic map the task lines are the pre-order of the
\* children lists, every child present in the map emitted once per reference.
C3_PreOrderOfPresentChildren ==
  (TreeDone /\ Acyclic(args.taskMap)) =>
    /\ ~ret.threw
    /\ LineIds(TaskLines(ret.value.lines)) = ExpectedIds(FALSE)

\* C3 amended: on an acyclic map the task lines are the pre-order of the
\* children lists, every child that is present in the map and, under
\* hideCompleted, not completed emitted once per reference from an emitted
\* parent; absent ids are skipped.
C3_PreOrderOfVisibleChildren ==
  (TreeDone /\ Acyclic(args.taskMap)) =>
    /\ ~ret.threw
    /\ LineIds(TaskLines(ret.value.lines)) = ExpectedIds(args.hideCompleted)

\* a rendered root that lists a visible child, an absent id and, twice
\* referenced or not, more than one line
C3_Witness ==
  /\ TreeDone /\ Acyclic(args.taskMap) /\ ~ret.threw
  /\ \E r \in 1..Len(TreeRoots) :
       LET children == TreeRoots[r].children
       IN  /\ \E i \in 1..Len(children) : ~InMap(children[i])
           /\ \E i \in 1..Len(children) : InMapAndVisible(children[i])
  /\ Len(TaskLines(ret.value.lines)) >= 2
\* the top-level task lines of a rendering
TopLevelLines(lines) ==
  SelectSeq(lines, LAMBDA line : line.kind = "task" /\ Len(line.prefix) = 1)

\* the records the data model calls roots: parent null or absent, completed
\* ones dropped under hideCompleted
RootsByDataModel ==
  SelectSeq(ObjectValues(args.taskMap),
         LAMBDA task : /\ task.parent \in {Null, Undefined}
                       /\ ~(args.hideCompleted /\ task.completed))

\* C8: the rendered roots are exactly the records whose parent is null or
\* absent, minus the completed ones under hideCompleted; each is a top-level
\* line, and the 'no tasks' line is returned only when there is none.
C8_RootsHaveNullOrAbsentParent ==
  (TreeDone /\ ~ret.threw) =>
    LET top == LineIds(TopLevelLines(ret.value.lines))
        roots == LineIds(RootsByDataModel)
    IN  /\ {top[i] : i \in 1..Len(top)} = {roots[i] : i \in 1..Len(roots)}
        /\ Len(top) = Len(roots)
        /\ ret.value.noRootTasks <=> Len(roots) = 0

\* the node at position k of a path is the last of its siblings that show
LastAmongSiblings(path, k) ==
  IF k = 1 THEN path[1] = Len(TreeRoots)
  ELSE LET siblings ==
             args.taskMap[NodeAt(args.taskMap, TreeRoots, SubSeq(path, 1, k - 1))].children
       IN  \A j \in (path[k] + 1)..Len(siblings) : ~InMapAndVisible(siblings[j])

\* one segment per ancestor level, then the connector of the node itself
ExpectedPrefix(path) ==
  [k \in 1..Len(path) |->
     IF k < Len(path)
     THEN IF LastAmongSiblings(path, k) THEN BlankSegment ELSE BarSegment
     ELSE IF LastAmongSiblings(path, k) THEN LastConnector ELSE MidConnector]

\* the task line a detail line at position n belongs to
OwnerOf(lines, n) ==
  lines[CHOOSE m \in 1..n : /\ lines[m].kind = "task"
                             /\ \A k \in (m + 1)..n : lines[k].kind # "task"]

\* C9: a node's line carries the last-sibling connector iff the node is the
\* last of its sibling list after absent ids and, under hideCompleted,
\* completed tasks are dropped; the prefix has one segment per ancestor,
\* blank where that ancestor was last and a bar where it was not; detail
\* lines follow the same rule for the node itself.
C9_ConnectorsAndPrefixes ==
  (TreeDone /\ Acyclic(args.taskMap)) =>
    /\ ~ret.threw
    /\ LET lines == ret.value.lines
           taskLines == TaskLines(lines)
           order == InPreOrder(TreePaths(args.taskMap, TreeRoots, args.hideCompleted))
       IN  /\ Len(taskLines) = Len(order)
           /\ \A i \in 1..Len(taskLines) : taskLines[i].prefix = ExpectedPrefix(order[i])
           /\ \A n \in 1..Len(lines) :
                lines[n].kind = "detail" =>
                  LET owner == OwnerOf(lines, n).prefix
                  IN  lines[n].prefix =
                        [owner EXCEPT ![Len(owner)] =
                           IF owner[Len(owner)] = LastConnector
                           THEN BlankSegment ELSE BarSegment]

\* a root that is not last, with a detail line, whose last raw child is
\* dropped so that an earlier child takes the last-sibling connector
C9_Witness ==
  /\ TreeDone /\ Acyclic(args.taskMap) /\ ~ret.threw
  /\ \E n \in 1..Len(ret.value.lines) :
       /\ ret.value.lines[n].kind = "task"
       /\ ret.value.lines[n].prefix = <<BarSegment, LastConnector>>
  /\ \E n \in 1..Len(ret.value.lines) :
       /\ ret.value.lines[n].kind = "detail"
       /\ ret.value.lines[n].prefix = <<BarSegment>>
  /\ \E id \in DOMAIN args.taskMap :
       LET children == args.taskMap[id].children
       IN  Len(children) = 2 /\ InMapAndVisible(children[1]) /\ ~InMapAndVisible(children[2])

(***************************************************************************)
(* Flat and grouped renderings, read back from the returned text.          *)
(***************************************************************************)
ListDone == pc = "done" /\ calls \in {<<"formatFlatTasks">>, <<"formatGroupedByProject">>}
GroupedDone == pc = "done" /\ calls = <<"formatGroupedByProject">>

\* the number of tasks a returned text shows
DisplayedCount(text) ==
  IF text.kind = "flat" THEN Len(text.taskList)
  ELSE Len(SelectSeq(text.lines, LAMBDA line : line.kind = "task"))

FooterPresent(text) == Len(text.footer) > 0

\* C2 as stated: for every limit the displayed count never exceeds the
\* limit, and the footer is present iff totalCount > displayed count.
C2_DisplayedNeverExceedsLimit ==
  ListDone =>
    /\ DisplayedCount(ret.value) <= args.limit
    /\ FooterPresent(ret.value) <=>
         (args.totalCount.defined /\ args.totalCount.n > DisplayedCount(ret.value))

\* C2 amended: for every positive limit the displayed count never exceeds
\* the limit (it is the smaller of limit and sequence length); a limit that
\* is zero or negative disables truncation and every task is displayed; the
\* footer is present iff totalCount > displayed count.
C2_DisplayedBoundedByPositiveLimit ==
  ListDone =>
    LET displayed == DisplayedCount(ret.value)
        given == Len(args.tasks)
    IN  /\ args.limit > 0 =>
             /\ displayed <= args.limit
             /\ displayed = IF given < args.limit THEN given ELSE args.limit
        /\ args.limit <= 0 => displayed = given
        /\ ret.value.header.displayed = displayed
        /\ FooterPresent(ret.value) <=>
             (args.totalCount.defined /\ args.totalCount.n > displayed)

\* a truncated rendering with its footer
C2_Witness ==
  /\ ListDone
  /\ args.limit > 0 /\ args.limit < Len(args.tasks)
  /\ DisplayedCount(ret.value) = args.limit
  /\ FooterPresent(ret.value)
  /\ ret.value.footer[1].totalCount > args.limit

\* the tasks the grouped renderer is to display
GroupedDisplayed ==
  SubSeq(args.tasks, 1,
         IF args.limit > 0 /\ args.limit < Len(args.tasks) THEN args.limit
         ELSE Len(args.tasks))

HasProject(task) == task.project \notin {Undefined, Null, ""}

\* position of the first displayed task of a project
FirstSeen(projectName) ==
  CHOOSE i \in 1..Len(GroupedDisplayed) :
    /\ GroupedDisplayed[i].project = projectName
    /\ \A j \in 1..(i - 1) : GroupedDisplayed[j].project # projectName

\* the heading line a task line at position n stands under
SectionOf(lines, n) ==
  lines[CHOOSE m \in 1..n : /\ lines[m].kind \in {"project", "inbox"}
                             /\ \A k \in (m + 1)..n : lines[k].kind \notin {"project", "inbox"}]

TaskOfId(id) == args.tasks[CHOOSE i \in 1..Len(args.tasks) : args.tasks[i].id = id]
PositionOfId(id) == CHOOSE i \in 1..Len(args.tasks) : args.tasks[i].id = id

\* C6: one section per distinct project among the displayed tasks, in
\* first-seen order; the tasks of a project contiguous under its one heading
\* in their original order; tasks without a project in one inbox section
\* after all project sections, emitted only when non-empty; the header's
\* project count is the number of project sections.
C6_GroupingFirstSeenOrder ==
  GroupedDone =>
    LET lines == ret.value.lines
        headings == SelectSeq(lines, LAMBDA line : line.kind = "project")
        inboxes == SelectSeq(lines, LAMBDA line : line.kind = "inbox")
        taskAt == {n \in 1..Len(lines) : lines[n].kind = "task"}
        headingAt == {n \in 1..Len(lines) : lines[n].kind = "project"}
        inboxAt == {n \in 1..Len(lines) : lines[n].kind = "inbox"}
    IN  /\ {headings[h].projectName : h \in 1..Len(headings)} =
             {GroupedDisplayed[i].project :
                i \in {j \in 1..Len(GroupedDisplayed) : HasProject(GroupedDisplayed[j])}}
        /\ \A h, k \in 1..Len(headings) :
             h < k => FirstSeen(headings[h].projectName) < FirstSeen(headings[k].projectName)
        /\ {lines[n].id : n \in taskAt} =
             {GroupedDisplayed[i].id : i \in 1..Len(GroupedDisplayed)}
        /\ Cardinality(taskAt) = Len(GroupedDisplayed)
        /\ \A n \in taskAt :
             LET section == SectionOf(lines, n)
                 task == TaskOfId(lines[n].id)
             IN  IF HasProject(task)
                 THEN section.kind = "project" /\ section.projectName = task.project
                 ELSE section.kind = "inbox"
        /\ \A n, m \in taskAt :
             (n < m /\ SectionOf(lines, n) = SectionOf(lines, m)) =>
               PositionOfId(lines[n].id) < PositionOfId(lines[m].id)
        /\ Len(inboxes) <= 1
        /\ Len(inboxes) = 1 <=>
             \E i \in 1..Len(GroupedDisplayed) : ~HasProject(GroupedDisplayed[i])
        /\ \A n \in inboxAt : \A m \in headingAt : m < n
        /\ \A n \in inboxAt \cup headingAt :
             n + 2 <= Len(lines) /\ lines[n + 2].kind = "task"
        /\ ret.value.header.projects = Len(headings)

\* two tasks of one project separated by a task of another project and
\* an inbox task
C6_Witness ==
  /\ GroupedDone
  /\ Len(GroupedDisplayed) >= 3
  /\ \E i, j, k \in 1..Len(GroupedDisplayed) :
       /\ i < j /\ j < k
       /\ HasProject(GroupedDisplayed[i])
       /\ GroupedDisplayed[k].project = GroupedDisplayed[i].project
       /\ GroupedDisplayed[j].project # GroupedDisplayed[i].project
  /\ ret.value.header.projects >= 1
  /\ \E n \in 1..Len(ret.value.lines) : ret.value.lines[n].kind = "inbox"

(***************************************************************************)
(* Note previews, read back from the returned text.                        *)
(***************************************************************************)
NoteDone == pc = "done" /\ Len(args.tasks) = 1 /\ args.tasks[1].id = "N"

\* the note previews a returned text shows, with the budget that applies
RenderedNotes ==
  IF calls = <<"formatTaskDetails">>
  THEN SelectSeq(ret.value, LAMBDA detail : detail.label = "note")
  ELSE ret.value.taskList[1].note
NoteBudget ==
  IF calls = <<"formatTaskDetails">> THEN NoteBudgetDetails ELSE NoteBudgetFlat

\* C7: note truncation is exact for both budgets: a note of length <=
\* budget is rendered unchanged (here: up to the trim() the code applies)
\* with no ellipsis, and a note of length > budget is rendered as exactly
\* budget characters followed by the ellipsis.
C7_NoteTruncationExact ==
  (NoteDone /\ Len(Trim(args.tasks[1].note)) > 0) =>
    LET note == args.tasks[1].note
    IN  /\ Len(RenderedNotes) = 1
        /\ Len(note) <= NoteBudget =>
             /\ RenderedNotes[1].text = Trim(note)
             /\ ~RenderedNotes[1].ellipsis
        /\ Len(note) > NoteBudget =>
             /\ Len(RenderedNotes[1].text) = NoteBudget
             /\ RenderedNotes[1].ellipsis

(***************************************************************************)
(* The orchestrator, read back from its options, the query's outcome and   *)
(* what it returned.                                                       *)
(***************************************************************************)
OrchDone == pc = "done" /\ "perspectiveName" \in DOMAIN args /\ "showHierarchy" \in DOMAIN args
Settled == OrchDone /\ Len(calls) > 0 /\ calls[1] = "executeOmniFocusScript"

RenderersInvoked == SelectSeq(calls, LAMBDA c : c \in RendererNames)
TimesCalled(name) == Len(SelectSeq(calls, LAMBDA c : c = name))

\* the structured value the query produced, when it produced one
HasData ==
  /\ scriptResult.settled = "resolved"
  /\ \/ scriptResult.value.type = "object" /\ ~scriptResult.value.isNull
     \/ /\ scriptResult.value.type = "string" /\ scriptResult.value.parses
        /\ scriptResult.value.parsed.type = "object" /\ ~scriptResult.value.parsed.isNull
QueryData ==
  IF scriptResult.value.type = "string" THEN scriptResult.value.parsed
  ELSE scriptResult.value

HidesCompleted == ~(args.hideCompleted.defined /\ ~args.hideCompleted.b)
QueryTasks ==
  IF QueryData.taskMap.kind = "map" THEN ObjectValues(QueryData.taskMap.map) ELSE <<>>

\* a successful result whose records are all objects and whose filtered
\* task set is not empty
SuccessfulNonEmpty ==
  /\ Settled /\ HasData
  /\ QueryData.success.defined /\ QueryData.success.b
  /\ ~AnyNull(QueryTasks)
  /\ \E i \in 1..Len(QueryTasks) : ~(HidesCompleted /\ QueryTasks[i].completed)

\* C4: for every successful result with a non-empty filtered task set and
\* every combination of showHierarchy and groupByProject exactly one
\* renderer is invoked: the tree renderer whenever showHierarchy is set,
\* else the grouped renderer when groupByProject is set or left to its
\* default, else the flat renderer.
C4_ExactlyOneRendererByPriority ==
  SuccessfulNonEmpty =>
    /\ Len(RenderersInvoked) = 1
    /\ RenderersInvoked[1] =
         (IF args.showHierarchy.defined /\ args.showHierarchy.b
          THEN "formatHierarchicalTasks"
          ELSE IF ~args.groupByProject.defined \/ args.groupByProject.b
          THEN "formatGroupedByProject"
          ELSE "formatFlatTasks")
    /\ ~ret.threw
    /\ ret.value.kind \in {"hierarchical", "grouped", "flat"} =>
         ret.value.kind =
           (CASE RenderersInvoked[1] = "formatHierarchicalTasks" -> "hierarchical"
              [] RenderersInvoked[1] = "formatGroupedByProject" -> "grouped"
              [] OTHER -> "flat")

\* both flags set, and the tree is what was returned
C4_Witness ==
  /\ SuccessfulNonEmpty
  /\ args.showHierarchy = Flag(TRUE) /\ args.groupByProject = Flag(TRUE)
  /\ RenderersInvoked = <<"formatHierarchicalTasks">>
  /\ ~ret.threw /\ ret.value.kind = "hierarchical"

\* the failures of the query itself
QueryFailed ==
  \/ scriptResult.settled = "rejected"
  \/ scriptResult.value.type = "string" /\ ~scriptResult.value.parses
  \/ scriptResult.value.type \notin {"string", "object"}
  \/ scriptResult.value.type = "object" /\ scriptResult.value.isNull
  \/ HasData /\ ~(QueryData.success.defined /\ QueryData.success.b)

\* task data that is not what the data model describes: a taskMap that is
\* no mapping, a null record, a record without a name
MalformedTaskData ==
  /\ HasData /\ QueryData.success.defined /\ QueryData.success.b
  /\ \/ QueryData.taskMap.kind = "number"
     \/ AnyNull(QueryTasks)
     \/ \E i \in 1..Len(QueryTasks) : QueryTasks[i].name = Undefined

\* task data whose processing raises: a null record that is read (all
\* records are read under hideCompleted and by the tree renderer), or, in
\* the tree renderer, a rendered root that is its own descendant
RaisingTaskData ==
  /\ HasData /\ QueryData.success.defined /\ QueryData.success.b
  /\ \/ /\ AnyNull(QueryTasks)
        /\ HidesCompleted \/ (args.showHierarchy.defined /\ args.showHierarchy.b)
     \/ /\ ~AnyNull(QueryTasks)
        /\ args.showHierarchy.defined /\ args.showHierarchy.b
        /\ \A i \in 1..Len(QueryTasks) : ~QueryTasks[i].completed
        /\ \E i \in 1..Len(QueryTasks) :
             /\ QueryTasks[i].parent = Null
             /\ QueryTasks[i].id \in Descendants(QueryData.taskMap.map, {QueryTasks[i].id}, {})

\* the returned text is the error marker and message, nothing rendered
ReturnsErrorOnly == ~ret.threw /\ ret.value.kind = "error"

EmptyNameRejected ==
  (OrchDone /\ ~Truthy(args.perspectiveName)) =>
    /\ ~ret.threw
    /\ ret.value = ErrorText("empty perspective name")
    /\ calls = <<>>

\* C5 as stated: whatever the query does (throws, undecodable string,
\* non-object value, success=false, malformed task data) the function
\* returns an error-marker string with no rendered output, no exception
\* escapes, and an empty name is rejected without query or renderer.
C5_EveryFailureReturnsErrorText ==
  /\ OrchDone => ~ret.threw
  /\ EmptyNameRejected
  /\ (Settled /\ (QueryFailed \/ MalformedTaskData)) => ReturnsErrorOnly

\* C5 amended: the same for a query that throws, returns an undecodable
\* string, a non-object value, success=false, or task data whose processing
\* raises an exception (a null record that is read, a cyclic map sent to
\* the tree renderer); task data that is
\* malformed without raising (a record with missing fields, a taskMap that
\* is no mapping) is rendered or reported as empty, not as an error.
C5_EveryRaisedFailureReturnsErrorText ==
  /\ OrchDone => ~ret.threw
  /\ EmptyNameRejected
  /\ (Settled /\ QueryFailed) => (ReturnsErrorOnly /\ RenderersInvoked = <<>>)
  /\ (Settled /\ RaisingTaskData) => ReturnsErrorOnly
  /\ Settled => TimesCalled("executeOmniFocusScript") = 1
  /\ (Settled /\ ret.value.kind = "error") => TimesCalled("console.error") = 1

\* a rejected query reported as an error text, the error logged once
C5_Witness ==
  /\ Settled
  /\ scriptResult.settled = "rejected"
  /\ ~ret.threw /\ ret.value.kind = "error"
  /\ calls = <<"executeOmniFocusScript", "console.error">>

(***************************************************************************)
(* The date snippet, read back from the returned text.                     *)
(***************************************************************************)
DateAccepted == pc = "done" /\ calls = <<"generateAppleScriptDateVar">> /\ ~ret.threw

\* positions of a statement in the returned snippet
PositionsOf(stmt, value) ==
  {i \in 1..Len(ret.value) : ret.value[i].line.stmt = stmt /\ ret.value[i].line.value = value}

\* C10: for every accepted date string and variable name the statements
\* come in the fixed order: open 'using terms from scripting additions',
\* set variable to current date, set day to 1, set year, set month, set day
\* to the target day, set time to 0, close 'end using terms from'; the
\* day-to-1 assignment precedes the month assignment and the target-day
\* assignment follows it.
C10_StatementOrder ==
  DateAccepted =>
    /\ [i \in 1..Len(ret.value) |-> ret.value[i].line.stmt] =
         <<"using terms from scripting additions", "set to current date", "set day",
           "set year", "set month", "set day", "set time", "end using terms from">>
    /\ [i \in 1..Len(ret.value) |-> ret.value[i].line.value] =
         <<0, 0, 1, args.written.year, args.written.month, args.written.day, 0, 0>>
    /\ \A i \in 2..7 : ret.value[i].line.var = args.varName
    /\ \A i \in 1..Len(ret.value) :
         ret.value[i].indent = (IF i = 1 THEN "" ELSE args.indent)
    /\ \E first \in PositionsOf("set day", 1) :
       \E month \in PositionsOf("set month", args.written.month) :
       \E target \in PositionsOf("set day", args.written.day) :
         first < month /\ month < target

\* the last day of a month, with a time, an indent and a long variable name
C10_Witness ==
  /\ DateAccepted
  /\ args.written = [year |-> 2026, month |-> 3, day |-> 31]
  /\ Len(args.isoDate) > 10
  /\ args.varName = "theDueDate" /\ args.indent # ""
  /\ Len(ret.value) = 8

====
